---- MODULE Spec2Model ----
(***************************************************************************)
(* State-machine model of the HwMonitor dashboard (src/src/script.js):     *)
(* the module-level dynamic import, the channel probe of                   *)
(* DashboardManager.setupTauriInvoke, the constructor, the 2000 ms poll    *)
(* loop of startSystemMonitoring / updateSystemInfo with its Promise.all   *)
(* join, and the rolling chart buffers of updateChartData.                 *)
(*                                                                         *)
(* Units.  Time is in milliseconds; performance.now() is now + sub/3, and   *)
(* the timestamps of the frame-rate counter are in thirds of a             *)
(* millisecond, so that 120 frames divide 2000 ms evenly.  The provider's floating-point fields  *)
(* (cpu_usage, memory_usage, temperature) are carried in tenths, so that   *)
(* Math.round is a real rounding.  chartData.cpu and chartData.memory hold *)
(* the rounded integers the code pushes; chartData.temperature holds the   *)
(* unrounded reading (in tenths) the code pushes.                          *)
(*                                                                         *)
(* One action is one run-to-completion turn of the JavaScript event loop:  *)
(* a timer callback or a provider response together with the promise       *)
(* continuations (microtasks) it makes runnable.                           *)
(***************************************************************************)
EXTENDS Integers, Sequences, FiniteSets, TLC

VARIABLES
    now,             \* wall clock, ms
    phase,           \* "loading" (before new DashboardManager()) | "running"
    importState,     \* the import("@tauri-apps/api/tauri") promise
    importedInvoke,  \* module-level let importedInvoke (script.js:3)
    host,            \* window.__TAURI__ as the probe sees it
    canvas,          \* document.getElementById('performance-chart') exists
    surface,         \* width and height of the canvas container, in pixels
    tauriInvoke,     \* this.tauriInvoke
    ctx,             \* this.ctx is set (and with it this.chartData)
    ui,              \* textContent / severity class of the readouts
    chartData,       \* this.chartData: cpu, memory, temperature
    drawCount,       \* number of frames drawChart has painted
    consoleErrors,   \* number of console.error calls
    intervalSet,     \* setInterval of startSystemMonitoring was called
    nextFire,        \* due time of the next interval callback
    ticks,           \* number of updateSystemInfo calls so far
    cycles,          \* online poll cycles: the two requests and their join
    specsRequest,    \* the get_hardware_specs request of loadHardwareSpecs
    pushed,          \* history: every chart point pushed, with its tick
    frame,           \* what the last call of drawChart painted
    uncaught,        \* exceptions that left loadHardwareSpecs / updateSystemInfo
    sub,             \* sub-millisecond part of performance.now(), in thirds
    fpsCounter,      \* this.fps, this.frames, this.lastTime
    rafRequested,    \* a requestAnimationFrame callback is outstanding
    fpsUpdates,      \* history: every value written to the fps readout
    nextClock        \* due time of the next callback of the clock interval

\* the state of the frame-rate loop and of the clock
loopVars == << sub, fpsCounter, rafRequested, fpsUpdates, nextClock >>

vars == << now, phase, importState, importedInvoke, host, canvas, surface, tauriInvoke,
           ctx, ui, chartData, drawCount, consoleErrors, intervalSet, nextFire,
           ticks, cycles, specsRequest, pushed, frame, uncaught, loopVars >>

----------------------------------------------------------------------------
(* Program constants *)

\* setInterval(() => this.updateSystemInfo(), 2000)
PollInterval == 2000

\* this.maxDataPoints = 50
maxDataPoints == 50

\* const padding = 15
Padding == 15

\* setInterval(() => this.updateClock(), 1000)
ClockInterval == 1000

Placeholder == "--"

\* textContent of a readout before the script first writes it
InitialText == ""

NullChannel == "null"

----------------------------------------------------------------------------
(* Bounds of the model *)

\* granularity of the passage of time
TimeStep == 1000

\* horizon of the specification Spec
MaxTime == 4000

\* horizon of the specification SpecProbe
MaxTimeProbe == 2000

\* horizon of the specification SpecLong: 52 interval ticks after the first
MaxTimeLong == 104000

\* SpecLong: the ticks whose requests may be rejected
FailTicks == 2

\* horizon of the specification SpecLoops
MaxTimeLoops == 2000

\* horizon of the specification SpecFps
MaxTimeFps == 2000

\* SpecSensorLoss: the ticks at which the sensor may still give a reading
SensorTicks == 2

----------------------------------------------------------------------------
(* Channel probe *)

\* window.__TAURI__ shapes: whether the object exists, and which of
\* invoke, tauri.invoke, core.invoke is a function on it
AllHosts ==
    [present : BOOLEAN, invoke : BOOLEAN, tauri : BOOLEAN, core : BOOLEAN]

\* a host object that does not exist exposes nothing
RealHosts == { h \in AllHosts : ~h.present => (~h.invoke /\ ~h.tauri /\ ~h.core) }

\* values of importedInvoke that fail the test  if (importedInvoke)
Falsy == { NullChannel, "undefined" }

\* what mod.invoke can be when the import resolves
ModuleExports == { "imported", "undefined" }

\* mutant: core.invoke is tried before tauri.invoke
setupTauriInvokeCoreFirst(imported, h) ==
    IF imported \notin Falsy THEN imported
    ELSE IF h.present /\ h.invoke THEN "host.invoke"
    ELSE IF h.present /\ h.core THEN "host.core.invoke"
    ELSE IF h.present /\ h.tauri THEN "host.tauri.invoke"
    ELSE NullChannel

setupTauriInvoke(imported, h) ==
    IF imported \notin Falsy THEN imported
    ELSE IF h.present /\ h.invoke THEN "host.invoke"
    ELSE IF h.present /\ h.tauri THEN "host.tauri.invoke"
    ELSE IF h.present /\ h.core THEN "host.core.invoke"
    ELSE NullChannel

----------------------------------------------------------------------------
(* Provider responses *)

\* get_system_info: cpu_usage and memory_usage in tenths of a percent,
\* uptime in seconds
SysSnapshots ==
    { [cpu_usage |-> 423, memory_usage |-> 915, uptime |-> 7300,
       used_memory |-> 1610612736, total_memory |-> 1759218604],
      [cpu_usage |-> 845, memory_usage |-> 304, uptime |-> 100,
       used_memory |-> 52428800, total_memory |-> 1759218604] }

\* get_cpu_temperature: temperature null, or a reading in tenths of a degree
TempSnapshots ==
    { [hasReading |-> FALSE, temperature |-> 0],
      [hasReading |-> TRUE,  temperature |-> 725] }

NoSnapshot ==
    [cpu_usage |-> 0, memory_usage |-> 0, uptime |-> 0,
     used_memory |-> 0, total_memory |-> 0]
NoTemp == [hasReading |-> FALSE, temperature |-> 0]

\* one online poll cycle: the state of its two requests, the values they
\* brought while the pair is awaited, and the state of the Promise.all join
NewCycle ==
    [sys |-> "pending", temp |-> "pending", sysVal |-> NoSnapshot,
     tempVal |-> NoTemp, join |-> "pending"]

----------------------------------------------------------------------------
(* Pure helpers of DashboardManager *)

\* Math.round on a value given in tenths
Round(tenths) == (tenths + 5) \div 10

\* mutant: decimal units, 10^9 and 10^6 bytes
formatBytesDecimal(bytes) ==
    LET r      == bytes % 1000000000
        tenths == (bytes \div 1000000000) * 10 + (r + 50000000) \div 100000000
    IN  IF bytes >= 1000000000
        THEN ToString(tenths \div 10) \o "." \o ToString(tenths % 10) \o " GB"
        ELSE ToString((bytes + 500000) \div 1000000) \o " MB"

\* formatBytes, l.223-230.  toFixed rounds the exact quotient to the nearest
\* decimal, halves upwards; the tenths of bytes / 2^30 are computed from the
\* remainder in two parts so that no intermediate value exceeds 32 bits.
formatBytes(bytes) ==
    LET gib    == 1024 * 1024 * 1024
        mib    == 1024 * 1024
        r      == bytes % gib
        frac   == ((r \div 1024) * 10 + mib \div 2 + ((r % 1024) * 10) \div 1024) \div mib
        tenths == (bytes \div gib) * 10 + frac
    IN  IF bytes >= gib
        THEN ToString(tenths \div 10) \o "." \o ToString(tenths % 10) \o " GB"
        ELSE ToString((bytes + mib \div 2) \div mib) \o " MB"

\* the three severity classes of a readout's classList
TierClasses == { "good", "warning", "danger" }

\* mutant: the cutoffs are compared with > instead of >=
applyColorCodingStrict(classList, value, warningThreshold, dangerThreshold) ==
    (classList \ TierClasses) \cup
        { IF value > dangerThreshold THEN "danger"
          ELSE IF value > warningThreshold THEN "warning"
          ELSE "good" }

\* the classList of the element after applyColorCoding(element, value, ...)
applyColorCoding(classList, value, warningThreshold, dangerThreshold) ==
    (classList \ TierClasses) \cup
        { IF value >= dangerThreshold THEN "danger"
          ELSE IF value >= warningThreshold THEN "warning"
          ELSE "good" }

\* mutant: only the cpu buffer drops its oldest point
updateChartDataShiftsCpuOnly(chart, cpuUsage, memoryUsage, tempInfo) ==
    LET t == IF tempInfo.hasReading THEN tempInfo.temperature ELSE 0
        grownCpu  == Append(chart.cpu, cpuUsage)
        grownMem  == Append(chart.memory, memoryUsage)
        grownTemp == Append(chart.temperature, t)
    IN  IF Len(grownCpu) > maxDataPoints
        THEN [cpu |-> Tail(grownCpu), memory |-> grownMem, temperature |-> grownTemp]
        ELSE [cpu |-> grownCpu, memory |-> grownMem, temperature |-> grownTemp]

\* mutant: the oldest point is dropped one push too early (length >= capacity)
updateChartDataShiftEarly(chart, cpuUsage, memoryUsage, tempInfo) ==
    LET t == IF tempInfo.hasReading THEN tempInfo.temperature ELSE 0
        grownCpu  == Append(chart.cpu, cpuUsage)
        grownMem  == Append(chart.memory, memoryUsage)
        grownTemp == Append(chart.temperature, t)
    IN  IF Len(grownCpu) >= maxDataPoints
        THEN [cpu |-> Tail(grownCpu), memory |-> Tail(grownMem),
              temperature |-> Tail(grownTemp)]
        ELSE [cpu |-> grownCpu, memory |-> grownMem, temperature |-> grownTemp]

\* chartData after updateChartData(cpuUsage, memoryUsage, temperature);
\* temperature is tempInfo?.temperature, and  temperature || 0  is pushed
updateChartData(chart, cpuUsage, memoryUsage, tempInfo) ==
    LET t == IF tempInfo.hasReading THEN tempInfo.temperature ELSE 0
        grownCpu  == Append(chart.cpu, cpuUsage)
        grownMem  == Append(chart.memory, memoryUsage)
        grownTemp == Append(chart.temperature, t)
    IN  IF Len(grownCpu) > maxDataPoints
        THEN [cpu |-> Tail(grownCpu), memory |-> Tail(grownMem),
              temperature |-> Tail(grownTemp)]
        ELSE [cpu |-> grownCpu, memory |-> grownMem, temperature |-> grownTemp]

EmptyChart == [cpu |-> << >>, memory |-> << >>, temperature |-> << >>]

InitialUi ==
    [cpu |-> InitialText, cpuTier |-> {},
     memory |-> InitialText, memoryTier |-> {},
     temp |-> InitialText, tempTier |-> {},
     uptime |-> InitialText, cpuModel |-> InitialText,
     usedMemory |-> InitialText, totalMemory |-> InitialText,
     fps |-> InitialText, fpsTier |-> {},
     time |-> InitialText]

\* the placeholder writes shared by the offline branch (l.119-129) and the
\* catch block (l.193-203): textContent only, the classList is not touched
ShowPlaceholders(u) ==
    [u EXCEPT !.cpu = Placeholder, !.memory = Placeholder,
              !.temp = Placeholder, !.uptime = Placeholder,
              !.usedMemory = Placeholder, !.totalMemory = Placeholder]

\* mutant: an absent reading leaves the severity class of the last reading
ShowValuesKeepsTier(u, systemInfo, tempInfo) ==
    LET cpuUsage    == Round(systemInfo.cpu_usage)
        memoryUsage == Round(systemInfo.memory_usage)
        cpuTemp     == Round(tempInfo.temperature)
        withTemp ==
            IF tempInfo.hasReading
            THEN [u EXCEPT !.temp = ToString(cpuTemp),
                           !.tempTier = applyColorCoding(u.tempTier, cpuTemp, 70, 80)]
            ELSE [u EXCEPT !.temp = Placeholder]
    IN  [withTemp EXCEPT
            !.cpu = ToString(cpuUsage),
            !.cpuTier = applyColorCoding(u.cpuTier, cpuUsage, 70, 85),
            !.memory = ToString(memoryUsage),
            !.memoryTier = applyColorCoding(u.memoryTier, memoryUsage, 75, 90),
            !.usedMemory = formatBytes(systemInfo.used_memory),
            !.totalMemory = formatBytes(systemInfo.total_memory),
            !.uptime = ToString(systemInfo.uptime \div 3600)]

\* the readout writes of the try block, l.145-181
ShowValues(u, systemInfo, tempInfo) ==
    LET cpuUsage    == Round(systemInfo.cpu_usage)
        memoryUsage == Round(systemInfo.memory_usage)
        cpuTemp     == Round(tempInfo.temperature)
        withTemp ==
            IF tempInfo.hasReading
            THEN [u EXCEPT !.temp = ToString(cpuTemp),
                           !.tempTier = applyColorCoding(u.tempTier, cpuTemp, 70, 80)]
            ELSE [u EXCEPT !.temp = Placeholder,
                           !.tempTier = u.tempTier \ TierClasses]
    IN  [withTemp EXCEPT
            !.cpu = ToString(cpuUsage),
            !.cpuTier = applyColorCoding(u.cpuTier, cpuUsage, 70, 85),
            !.memory = ToString(memoryUsage),
            !.memoryTier = applyColorCoding(u.memoryTier, memoryUsage, 75, 90),
            !.usedMemory = formatBytes(systemInfo.used_memory),
            !.totalMemory = formatBytes(systemInfo.total_memory),
            !.uptime = ToString(systemInfo.uptime \div 3600)]

\* updateClock, l.237-246: the wall clock, shown to the second
updateClock(u, t) == [u EXCEPT !.time = ToString(t \div 1000)]

----------------------------------------------------------------------------
(* The chart frame: drawChart, drawLine, drawLegend, drawCurrentValues *)

\* nothing has been painted
NoFrame ==
    [background |-> FALSE, grid |-> FALSE, cpuLine |-> FALSE,
     memoryLine |-> FALSE, tempLine |-> FALSE, legend |-> FALSE,
     overlayLines |-> {}, panelHeight |-> 0, points |-> 0,
     cpuPath |-> << >>, memoryPath |-> << >>, tempPath |-> << >>]

\* the last element of a buffer, or 0:  data[data.length - 1] || 0
Latest(data) == IF Len(data) = 0 THEN 0 ELSE data[Len(data)]

\* a series of whole percents, in tenths
InTenths(data) == [i \in 1..Len(data) |-> 10 * data[i]]

\* mutant: the x step is the drawable width over the capacity
drawLineOverCapacity(data, chartWidth, chartHeight) ==
    IF Len(data) < 2 THEN << >>
    ELSE [i \in 1..Len(data) |->
            [x |-> ((maxDataPoints * Padding + (i - 1) * chartWidth)
                       * (maxDataPoints - 1)) \div maxDataPoints,
             y |-> 1000 * (Padding + chartHeight) - data[i] * chartHeight]]

\* mutant: the polyline is skipped only for an empty series
drawLineSinglePoint(data, chartWidth, chartHeight) ==
    IF Len(data) < 1 THEN << >>
    ELSE [i \in 1..Len(data) |->
            [x |-> (maxDataPoints - 1) * Padding + (i - 1) * chartWidth,
             y |-> 1000 * (Padding + chartHeight) - data[i] * chartHeight]]

\* the points of the polyline that drawLine strokes, l.391-405, for a
\* series given in tenths; nothing for fewer than two points.  x is in
\* 1/(maxDataPoints - 1) of a pixel and y in 1/1000 of a pixel, so that
\*   x = padding + (i / (maxDataPoints - 1)) * chartWidth   and
\*   y = padding + chartHeight - (data[i] / 100) * chartHeight   are exact;
\* i counts from 0 in the code and from 1 here.
drawLine(data, chartWidth, chartHeight) ==
    IF Len(data) < 2 THEN << >>
    ELSE [i \in 1..Len(data) |->
            [x |-> (maxDataPoints - 1) * Padding + (i - 1) * chartWidth,
             y |-> 1000 * (Padding + chartHeight) - data[i] * chartHeight]]

\* chartWidth and chartHeight of drawChart, l.324-328
chartWidth == surface.width - Padding * 2
chartHeight == surface.height - Padding * 2

\* mutant: the temperature polyline is gated on the latest sample alone
drawChartLatestGate(chart) ==
    LET n == Len(chart.cpu)
        currentTemp == Latest(chart.temperature)
    IN  [background |-> TRUE, grid |-> TRUE,
         cpuLine |-> n >= 2,
         memoryLine |-> Len(chart.memory) >= 2,
         tempLine |-> currentTemp > 0 /\ Len(chart.temperature) >= 2,
         cpuPath |-> drawLine(InTenths(chart.cpu), chartWidth, chartHeight),
         memoryPath |-> drawLine(InTenths(chart.memory), chartWidth, chartHeight),
         tempPath |-> IF currentTemp > 0
                      THEN drawLine(chart.temperature, chartWidth, chartHeight)
                      ELSE << >>,
         legend |-> TRUE,
         overlayLines |->
            IF n = 0 THEN {}
            ELSE IF currentTemp > 0 THEN { "CPU", "MEM", "TEMP" }
            ELSE { "CPU", "MEM" },
         panelHeight |-> IF n = 0 THEN 0 ELSE IF currentTemp > 0 THEN 38 ELSE 26,
         points |-> n]

\* the frame painted by drawChart, l.320-355: drawLine (l.391-392) paints
\* nothing for fewer than two points; the temperature polyline is painted
\* when some retained sample is > 0 (l.343); drawLegend always runs;
\* drawCurrentValues (l.447-467) returns for an empty buffer and includes
\* the TEMP line when the latest sample is > 0
drawChart(chart) ==
    LET n == Len(chart.cpu)
        currentTemp == Latest(chart.temperature)
    IN  [background |-> TRUE, grid |-> TRUE,
         cpuLine |-> n >= 2,
         memoryLine |-> Len(chart.memory) >= 2,
         tempLine |-> /\ \E i \in 1..Len(chart.temperature) : chart.temperature[i] > 0
                      /\ Len(chart.temperature) >= 2,
         cpuPath |-> drawLine(InTenths(chart.cpu), chartWidth, chartHeight),
         memoryPath |-> drawLine(InTenths(chart.memory), chartWidth, chartHeight),
         tempPath |-> IF \E i \in 1..Len(chart.temperature) : chart.temperature[i] > 0
                      THEN drawLine(chart.temperature, chartWidth, chartHeight)
                      ELSE << >>,
         legend |-> TRUE,
         overlayLines |->
            IF n = 0 THEN {}
            ELSE IF currentTemp > 0 THEN { "CPU", "MEM", "TEMP" }
            ELSE { "CPU", "MEM" },
         panelHeight |-> IF n = 0 THEN 0 ELSE IF currentTemp > 0 THEN 38 ELSE 26,
         points |-> n]

----------------------------------------------------------------------------
(* The frame-rate counter: initializeFPSCounter, updateFPS *)

\* performance.now(), in thirds of a millisecond
PerfNow == 3 * now + sub

\* a duration of ms milliseconds, in thirds of a millisecond
Thirds(ms) == 3 * ms

\* mutant: the measurement is published only after MORE than one second
updateFPSLate(counter, t) ==
    LET counted == counter.frames + 1
        elapsed == t - counter.lastTime
    IN  IF t > counter.lastTime + Thirds(1000)
        THEN [fps |-> (2 * counted * Thirds(1000) + elapsed) \div (2 * elapsed),
              frames |-> 0, lastTime |-> t]
        ELSE [counter EXCEPT !.frames = counted]

\* mutant: a published measurement does not reset the frame count
updateFPSKeepsCount(counter, t) ==
    LET counted == counter.frames + 1
        elapsed == t - counter.lastTime
    IN  IF t >= counter.lastTime + Thirds(1000)
        THEN [fps |-> (2 * counted * Thirds(1000) + elapsed) \div (2 * elapsed),
              frames |-> counted, lastTime |-> t]
        ELSE [counter EXCEPT !.frames = counted]

\* the counter after updateFPS at time t, l.257-265:
\* Math.round(frames * 1000 / e) is the floor of (2 * frames * 1000 + e) / 2e
updateFPS(counter, t) ==
    LET counted == counter.frames + 1
        elapsed == t - counter.lastTime
    IN  IF t >= counter.lastTime + Thirds(1000)
        THEN [fps |-> (2 * counted * Thirds(1000) + elapsed) \div (2 * elapsed),
              frames |-> 0, lastTime |-> t]
        ELSE [counter EXCEPT !.frames = counted]

\* updateFPS published a measurement: the branch of l.260 was taken
Published(before, after) == after.lastTime # before.lastTime

\* the fps readout after updateFPS, l.266-269
showFPS(u, before, after) ==
    IF Published(before, after)
    THEN [u EXCEPT !.fps = ToString(after.fps),
                   !.fpsTier = applyColorCoding(u.fpsTier, after.fps, 30, 55)]
    ELSE u

\* initializeFPSCounter, l.248-253: the counter is reset and updateFPS is
\* called once, synchronously
initializeFPSCounter(t) == updateFPS([fps |-> 0, frames |-> 0, lastTime |-> t], t)

----------------------------------------------------------------------------
(* The poll cycle: updateSystemInfo *)

Online == tauriInvoke # NullChannel

\* mutant: the join is fulfilled by the first fulfilled request
JoinStateEither(cy) ==
    IF cy.join # "pending" THEN cy.join
    ELSE IF cy.sys = "rejected" \/ cy.temp = "rejected" THEN "rejected"
    ELSE IF cy.sys = "ok" \/ cy.temp = "ok" THEN "fulfilled"
    ELSE "pending"

\* mutant: the join waits for both requests to settle before it rejects
JoinStateWaits(cy) ==
    IF cy.join # "pending" THEN cy.join
    ELSE IF cy.sys = "pending" \/ cy.temp = "pending" THEN "pending"
    ELSE IF cy.sys = "rejected" \/ cy.temp = "rejected" THEN "rejected"
    ELSE "fulfilled"

\* Promise.all over the two requests: rejected as soon as one rejects,
\* fulfilled when both are fulfilled; a settled promise never changes
JoinState(cy) ==
    IF cy.join # "pending" THEN cy.join
    ELSE IF cy.sys = "rejected" \/ cy.temp = "rejected" THEN "rejected"
    ELSE IF cy.sys = "ok" /\ cy.temp = "ok" THEN "fulfilled"
    ELSE "pending"

\* mutant: the catch block leaves the temperature readout as it was
CatchBlockKeepsTemp(u) ==
    [u EXCEPT !.cpu = Placeholder, !.memory = Placeholder, !.uptime = Placeholder]

\* the catch block, l.190-206
CatchBlock(u) == ShowPlaceholders(u)

\* mutant: the offline branch leaves the uptime readout as it was
OfflineBranchKeepsUptime(u) ==
    [u EXCEPT !.cpu = Placeholder, !.memory = Placeholder, !.temp = Placeholder]

\* the offline branch of updateSystemInfo, l.117-135
OfflineBranch(u) == ShowPlaceholders(u)

\* mutant: a rejected join issues the two requests again at once
CyclesAfterWithRetry(c, settled) ==
    IF cycles[c].join = "pending" /\ settled.join = "rejected"
    THEN Append([cycles EXCEPT ![c] = settled], NewCycle)
    ELSE [cycles EXCEPT ![c] = settled]

\* the poll cycles after the response that left cycle c as `settled`:
\* neither the try block nor the catch block issues a request
CyclesAfter(c, settled) == [cycles EXCEPT ![c] = settled]

\* the offline branch of loadHardwareSpecs, l.78-87
loadHardwareSpecsOffline(u) == [u EXCEPT !.cpuModel = "Tauri Not Available"]

\* Continuation of updateSystemInfo once the join of cycle c is fulfilled:
\* the try block l.143-188.  Without a chart (initializeChart returned at
\* l.275) this.chartData is undefined, updateChartData throws at l.305 and
\* the catch block runs after the readouts were written.
OnFulfilled(c, cy) ==
    LET shown       == ShowValues(ui, cy.sysVal, cy.tempVal)
        cpuUsage    == Round(cy.sysVal.cpu_usage)
        memoryUsage == Round(cy.sysVal.memory_usage)
        after       == updateChartData(chartData, cpuUsage, memoryUsage, cy.tempVal)
    IN  IF ctx
        THEN /\ ui' = shown
             /\ chartData' = after
             /\ pushed' = Append(pushed,
                    [tick |-> c, cpu |-> cpuUsage, memory |-> memoryUsage,
                     temperature |-> after.temperature[Len(after.temperature)]])
             /\ drawCount' = drawCount + 1
             /\ frame' = drawChart(after)
             /\ consoleErrors' = consoleErrors
             /\ uncaught' = uncaught
        ELSE /\ ui' = CatchBlock(shown)
             /\ consoleErrors' = consoleErrors + 1
             /\ UNCHANGED << chartData, pushed, drawCount, frame, uncaught >>

\* mutant: the catch block logs and throws the error again
OnRejectedRethrows ==
    /\ ui' = CatchBlock(ui)
    /\ consoleErrors' = consoleErrors + 1
    /\ uncaught' = uncaught + 1
    /\ UNCHANGED << chartData, pushed, drawCount, frame >>

\* mutant: the catch block pushes a zero point for the failed tick
OnRejectedPushesSentinel ==
    /\ ui' = CatchBlock(ui)
    /\ consoleErrors' = consoleErrors + 1
    /\ chartData' = IF ctx THEN updateChartData(chartData, 0, 0, NoTemp) ELSE chartData
    /\ UNCHANGED << pushed, drawCount, frame, uncaught >>

\* mutant: the catch block repaints the chart
OnRejectedRepaints ==
    /\ ui' = CatchBlock(ui)
    /\ consoleErrors' = consoleErrors + 1
    /\ drawCount' = IF ctx THEN drawCount + 1 ELSE drawCount
    /\ frame' = IF ctx THEN drawChart(chartData) ELSE frame
    /\ UNCHANGED << chartData, pushed, uncaught >>

\* Continuation of updateSystemInfo once the join of cycle c is rejected:
\* the catch block l.190-206 handles the error and the call returns
OnRejected ==
    /\ ui' = CatchBlock(ui)
    /\ consoleErrors' = consoleErrors + 1
    /\ UNCHANGED << chartData, pushed, drawCount, frame, uncaught >>

\* startSystemMonitoring, l.111-112: the interval is installed when the
\* first call of updateSystemInfo has completed
InstallInterval ==
    /\ intervalSet' = TRUE
    /\ nextFire' = now + PollInterval

\* A response has arrived for cycle c and left it as `arrived`: settle the
\* join and run the continuations this makes runnable.
Deliver(c, arrived) ==
    LET settled == [arrived EXCEPT !.join = JoinState(arrived)]
        wasPending == cycles[c].join = "pending"
    IN  /\ cycles' = CyclesAfter(c, settled)
        /\ IF wasPending /\ settled.join = "fulfilled" THEN OnFulfilled(c, settled)
           ELSE IF wasPending /\ settled.join = "rejected" THEN OnRejected
           ELSE UNCHANGED << ui, chartData, pushed, drawCount, consoleErrors,
                             frame, uncaught >>
        /\ IF wasPending /\ settled.join # "pending" /\ c = 1
           THEN InstallInterval
           ELSE UNCHANGED << intervalSet, nextFire >>
        /\ UNCHANGED << now, phase, importState, importedInvoke, host, canvas, surface,
                        tauriInvoke, ctx, ticks, specsRequest, loopVars >>

----------------------------------------------------------------------------
(* Actions *)

\* l.5-6: the dynamic import resolves and the module binding is assigned
ImportResolves(export) ==
    /\ importState = "pending"
    /\ importState' = "resolved"
    /\ importedInvoke' = export
    /\ UNCHANGED << now, phase, host, canvas, surface, tauriInvoke, ctx, ui, chartData,
                    drawCount, consoleErrors, intervalSet, nextFire, ticks,
                    cycles, specsRequest, pushed,
                    frame, uncaught, loopVars >>

\* l.7-9: the dynamic import fails and the failure is ignored
ImportRejects ==
    /\ importState = "pending"
    /\ importState' = "rejected"
    /\ UNCHANGED << now, phase, importedInvoke, host, canvas, surface, tauriInvoke, ctx,
                    ui, chartData, drawCount, consoleErrors, intervalSet,
                    nextFire, ticks, cycles, specsRequest, pushed,
                    frame, uncaught, loopVars >>

\* initializeApp -> new DashboardManager(), l.11-19 and l.490: the probe,
\* initializeChart (one frame when the canvas exists) and the first call of
\* updateSystemInfo by startSystemMonitoring; offline, that call returns at
\* once and the interval is installed in the same turn.  startClock shows
\* the time and installs the clock interval; initializeFPSCounter counts
\* its own call of updateFPS and requests the first frame callback.
Construct ==
    /\ phase = "loading"
    /\ phase' = "running"
    /\ tauriInvoke' = setupTauriInvoke(importedInvoke, host)
    /\ ctx' = canvas
    /\ chartData' = EmptyChart
    /\ drawCount' = IF canvas THEN drawCount + 1 ELSE drawCount
    /\ specsRequest' = IF tauriInvoke' = NullChannel THEN "none" ELSE "pending"
    /\ ticks' = ticks + 1
    /\ frame' = IF canvas THEN drawChart(EmptyChart) ELSE frame
    /\ IF tauriInvoke' = NullChannel
       THEN /\ ui' = updateClock(OfflineBranch(loadHardwareSpecsOffline(ui)), now)
            /\ cycles' = cycles
            /\ InstallInterval
       ELSE /\ ui' = updateClock(ui, now)
            /\ cycles' = Append(cycles, NewCycle)
            /\ UNCHANGED << intervalSet, nextFire >>
    /\ nextClock' = now + ClockInterval
    /\ fpsCounter' = initializeFPSCounter(PerfNow)
    /\ rafRequested' = TRUE
    /\ UNCHANGED << now, importState, importedInvoke, host, canvas, surface,
                    consoleErrors, pushed, uncaught, sub, fpsUpdates >>

\* mutant: an offline tick probes for the channel again
IntervalFiresReprobe ==
    /\ phase = "running"
    /\ intervalSet
    /\ now >= nextFire
    /\ nextFire' = nextFire + PollInterval
    /\ ticks' = ticks + 1
    /\ tauriInvoke' = IF Online THEN tauriInvoke
                      ELSE setupTauriInvoke(importedInvoke, host)
    /\ IF tauriInvoke' # NullChannel
       THEN /\ ui' = ui
            /\ cycles' = Append(cycles, NewCycle)
       ELSE /\ ui' = OfflineBranch(ui)
            /\ cycles' = cycles
    /\ UNCHANGED << now, phase, importState, importedInvoke, host, canvas, surface, ctx,
                    chartData, drawCount, consoleErrors, intervalSet,
                    specsRequest, pushed,
                    frame, uncaught, loopVars >>

\* mutant: an online tick also asks for the hardware specs again
IntervalFiresReloadsSpecs ==
    /\ phase = "running"
    /\ intervalSet
    /\ now >= nextFire
    /\ nextFire' = nextFire + PollInterval
    /\ ticks' = ticks + 1
    /\ IF Online
       THEN /\ ui' = ui
            /\ cycles' = Append(cycles, NewCycle)
            /\ specsRequest' = "pending"
       ELSE /\ ui' = OfflineBranch(ui)
            /\ cycles' = cycles
            /\ specsRequest' = specsRequest
    /\ UNCHANGED tauriInvoke
    /\ UNCHANGED << now, phase, importState, importedInvoke, host, canvas, surface, ctx,
                    chartData, drawCount, consoleErrors, intervalSet, pushed,
                    frame, uncaught, loopVars >>

\* the setInterval callback of l.112: updateSystemInfo up to its first
\* await; offline it writes the placeholders and returns, online it issues
\* the two requests (l.138-141)
IntervalFires ==
    /\ phase = "running"
    /\ intervalSet
    /\ now >= nextFire
    /\ nextFire' = nextFire + PollInterval
    /\ ticks' = ticks + 1
    /\ IF Online
       THEN /\ ui' = ui
            /\ cycles' = Append(cycles, NewCycle)
       ELSE /\ ui' = OfflineBranch(ui)
            /\ cycles' = cycles
    /\ UNCHANGED tauriInvoke
    /\ UNCHANGED << now, phase, importState, importedInvoke, host, canvas, surface, ctx,
                    chartData, drawCount, consoleErrors, intervalSet,
                    specsRequest, pushed,
                    frame, uncaught, loopVars >>

\* get_system_info of cycle c is answered
SysResolves(c, val) ==
    /\ c \in 1..Len(cycles)
    /\ cycles[c].sys = "pending"
    /\ Deliver(c, [cycles[c] EXCEPT
                     !.sys = "ok",
                     !.sysVal = IF cycles[c].join = "pending" THEN val ELSE NoSnapshot])

SysRejects(c) ==
    /\ c \in 1..Len(cycles)
    /\ cycles[c].sys = "pending"
    /\ Deliver(c, [cycles[c] EXCEPT !.sys = "rejected"])

\* get_cpu_temperature of cycle c is answered
TempResolves(c, val) ==
    /\ c \in 1..Len(cycles)
    /\ cycles[c].temp = "pending"
    /\ Deliver(c, [cycles[c] EXCEPT
                     !.temp = "ok",
                     !.tempVal = IF cycles[c].join = "pending" THEN val ELSE NoTemp])

TempRejects(c) ==
    /\ c \in 1..Len(cycles)
    /\ cycles[c].temp = "pending"
    /\ Deliver(c, [cycles[c] EXCEPT !.temp = "rejected"])

\* get_hardware_specs is answered: l.90-98, or the catch block l.99-107
SpecsResolves ==
    /\ specsRequest = "pending"
    /\ specsRequest' = "ok"
    /\ ui' = [ui EXCEPT !.cpuModel = "specs.cpu_model"]
    /\ UNCHANGED << now, phase, importState, importedInvoke, host, canvas, surface,
                    tauriInvoke, ctx, chartData, drawCount, consoleErrors,
                    intervalSet, nextFire, ticks, cycles, pushed,
                    frame, uncaught, loopVars >>

SpecsRejects ==
    /\ specsRequest = "pending"
    /\ specsRequest' = "rejected"
    /\ ui' = [ui EXCEPT !.cpuModel = "Failed to load"]
    /\ consoleErrors' = consoleErrors + 1
    /\ UNCHANGED << now, phase, importState, importedInvoke, host, canvas, surface,
                    tauriInvoke, ctx, chartData, drawCount,
                    intervalSet, nextFire, ticks, cycles, pushed,
                    frame, uncaught, loopVars >>

\* the setInterval callback of l.235: updateClock
ClockFires ==
    /\ phase = "running"
    /\ now >= nextClock
    /\ nextClock' = nextClock + ClockInterval
    /\ ui' = updateClock(ui, now)
    /\ UNCHANGED << now, phase, importState, importedInvoke, host, canvas, surface,
                    tauriInvoke, ctx, chartData, drawCount, consoleErrors,
                    intervalSet, nextFire, ticks, cycles, specsRequest, pushed,
                    frame, uncaught, sub, fpsCounter, rafRequested, fpsUpdates >>

\* a timer callback is due
TimerDue == (intervalSet /\ now >= nextFire) \/ now >= nextClock

\* mutant: the frame callback also repaints the chart
FrameCallbackRepaints(gap, horizon) ==
    LET t == PerfNow + gap
        after == updateFPS(fpsCounter, t)
    IN  /\ phase = "running"
        /\ rafRequested
        /\ ~TimerDue
        /\ t <= Thirds(horizon)
        /\ t <= Thirds(nextClock)
        /\ intervalSet => t <= Thirds(nextFire)
        /\ now' = t \div 3
        /\ sub' = t % 3
        /\ fpsCounter' = after
        /\ ui' = showFPS(ui, fpsCounter, after)
        /\ fpsUpdates' = IF Published(fpsCounter, after)
                          THEN Append(fpsUpdates, after.fps) ELSE fpsUpdates
        /\ rafRequested' = TRUE
        /\ drawCount' = IF ctx THEN drawCount + 1 ELSE drawCount
        /\ frame' = IF ctx THEN drawChart(chartData) ELSE frame
        /\ UNCHANGED << phase, importState, importedInvoke, host, canvas, surface,
                        tauriInvoke, ctx, chartData, consoleErrors,
                        intervalSet, nextFire, ticks, cycles, specsRequest,
                        pushed, uncaught, nextClock >>

\* The display delivers the requested frame callback `gap` thirds of a
\* millisecond after the current instant, no later than the next timer
\* callback: updateFPS, l.255-271, which requests the next callback.
FrameCallback(gap, horizon) ==
    LET t == PerfNow + gap
        after == updateFPS(fpsCounter, t)
    IN  /\ phase = "running"
        /\ rafRequested
        /\ ~TimerDue
        /\ t <= Thirds(horizon)
        /\ t <= Thirds(nextClock)
        /\ intervalSet => t <= Thirds(nextFire)
        /\ now' = t \div 3
        /\ sub' = t % 3
        /\ fpsCounter' = after
        /\ ui' = showFPS(ui, fpsCounter, after)
        /\ fpsUpdates' = IF Published(fpsCounter, after)
                          THEN Append(fpsUpdates, after.fps) ELSE fpsUpdates
        /\ rafRequested' = TRUE
        /\ UNCHANGED << phase, importState, importedInvoke, host, canvas, surface,
                        tauriInvoke, ctx, chartData, drawCount, consoleErrors,
                        intervalSet, nextFire, ticks, cycles, specsRequest,
                        pushed, frame, uncaught, nextClock >>

Min(a, b) == IF a <= b THEN a ELSE b

\* Time passes up to `horizon`; a due timer callback runs before time
\* passes further.
Advance(horizon) ==
    /\ phase = "running"
    /\ now < horizon
    /\ ~(intervalSet /\ now >= nextFire)
    /\ now' = LET step == Min(now + TimeStep, horizon)
              IN  IF intervalSet THEN Min(step, nextFire) ELSE step
    /\ UNCHANGED << phase, importState, importedInvoke, host, canvas, surface,
                    tauriInvoke, ctx, ui, chartData, drawCount, consoleErrors,
                    intervalSet, nextFire, ticks, cycles, specsRequest, pushed,
                    frame, uncaught, loopVars >>

----------------------------------------------------------------------------
(* Specification *)

\* the hosts of the specification Spec: no host object, and a host object
\* exposing core.invoke only
MainHosts ==
    { h \in RealHosts : ~h.invoke /\ ~h.tauri /\ (h.present => h.core) }

InitOn(hosts, canvases, surfaces) ==
    /\ now = 0
    /\ phase = "loading"
    /\ importState = "pending"
    /\ importedInvoke = NullChannel
    /\ host \in hosts
    /\ canvas \in canvases
    /\ surface \in surfaces
    /\ tauriInvoke = NullChannel
    /\ ctx = FALSE
    /\ ui = InitialUi
    /\ chartData = EmptyChart
    /\ drawCount = 0
    /\ consoleErrors = 0
    /\ intervalSet = FALSE
    /\ nextFire = 0
    /\ ticks = 0
    /\ cycles = << >>
    /\ specsRequest = "none"
    /\ pushed = << >>
    /\ frame = NoFrame
    /\ uncaught = 0
    /\ sub = 0
    /\ fpsCounter = [fps |-> 0, frames |-> 0, lastTime |-> 0]
    /\ rafRequested = FALSE
    /\ fpsUpdates = << >>
    /\ nextClock = 0

\* a container of 400 by 200 pixels
DefaultSurface == [width |-> 400, height |-> 200]

InitWith(hosts, canvases) == InitOn(hosts, canvases, { DefaultSurface })

Init == InitWith(MainHosts, BOOLEAN)

NextWith(exports, horizon) ==
    \/ \E export \in exports : ImportResolves(export)
    \/ ImportRejects
    \/ Construct
    \/ IntervalFires
    \/ Advance(horizon)
    \/ \E c \in 1..Len(cycles) : \E val \in SysSnapshots : SysResolves(c, val)
    \/ \E c \in 1..Len(cycles) : SysRejects(c)
    \/ \E c \in 1..Len(cycles) : \E val \in TempSnapshots : TempResolves(c, val)
    \/ \E c \in 1..Len(cycles) : TempRejects(c)
    \/ SpecsResolves
    \/ SpecsRejects

Next == NextWith({"imported"}, MaxTime)

\* The poll loop under every schedule of provider responses, over MaxTime.
Spec == Init /\ [][Next]_vars

\* The channel probe over every host shape and every outcome of the import.
InitProbe == InitWith(RealHosts, {TRUE})

NextProbe == NextWith(ModuleExports, MaxTimeProbe)

SpecProbe == InitProbe /\ [][NextProbe]_vars

\* A long run of the poll loop, past the capacity of the chart buffers: the
\* provider answers every request before the clock moves on, the answers of
\* tick c are SnapshotAt(c) and ReadingAt(c), and only the requests of the
\* first FailTicks ticks may be rejected.
SnapshotAt(c) ==
    [cpu_usage |-> (c * 37) % 1001, memory_usage |-> (c * 53) % 1001,
     uptime |-> c * 2, used_memory |-> c * 40000000, total_memory |-> 2147483647]

ReadingAt(c) ==
    IF c % 7 = 0 THEN [hasReading |-> FALSE, temperature |-> 0]
    ELSE [hasReading |-> TRUE, temperature |-> (c * 29) % 1000]

AllAnswered ==
    \A c \in 1..Len(cycles) : cycles[c].sys # "pending" /\ cycles[c].temp # "pending"

InitLong == InitWith({ h \in MainHosts : h.present }, {TRUE})

NextLong ==
    \/ ImportRejects
    \/ Construct
    \/ IntervalFires
    \/ (AllAnswered /\ Advance(MaxTimeLong))
    \/ \E c \in 1..Len(cycles) : SysResolves(c, SnapshotAt(c))
    \/ \E c \in 1..Len(cycles) : TempResolves(c, ReadingAt(c))
    \/ \E c \in 1..Len(cycles) : c <= FailTicks /\ SysRejects(c)
    \/ \E c \in 1..Len(cycles) : c <= FailTicks /\ TempRejects(c)
    \/ SpecsResolves

SpecLong == InitLong /\ [][NextLong]_vars

\* A long run in which the temperature sensor is lost: a reading may be
\* present at the first SensorTicks ticks and is absent afterwards, until
\* the last positive sample has left the chart buffers.
ReadingLostAt(c) ==
    IF c <= SensorTicks THEN { [hasReading |-> TRUE, temperature |-> 500 + c], NoTemp }
    ELSE { NoTemp }

NextSensorLoss ==
    \/ ImportRejects
    \/ Construct
    \/ IntervalFires
    \/ (AllAnswered /\ Advance(MaxTimeLong))
    \/ \E c \in 1..Len(cycles) : SysResolves(c, SnapshotAt(c))
    \/ \E c \in 1..Len(cycles) : \E val \in ReadingLostAt(c) : TempResolves(c, val)
    \/ SpecsResolves

SpecSensorLoss == InitLong /\ [][NextSensorLoss]_vars

\* The readouts at the cutoffs of the severity classes: answers whose
\* rounded values lie just below and exactly at each cutoff, over the first
\* two ticks.
CutoffSnapshots ==
    { [cpu_usage |-> 845, memory_usage |-> 744, uptime |-> 3600,
       used_memory |-> 0, total_memory |-> 0],
      [cpu_usage |-> 695, memory_usage |-> 895, uptime |-> 3599,
       used_memory |-> 0, total_memory |-> 0],
      [cpu_usage |-> 694, memory_usage |-> 745, uptime |-> 0,
       used_memory |-> 0, total_memory |-> 0],
      [cpu_usage |-> 844, memory_usage |-> 894, uptime |-> 7300,
       used_memory |-> 0, total_memory |-> 0] }

CutoffReadings ==
    { [hasReading |-> FALSE, temperature |-> 0] } \cup
    { [hasReading |-> TRUE, temperature |-> t] : t \in { 694, 695, 794, 795 } }

InitTiers == InitWith({ h \in MainHosts : h.present }, BOOLEAN)

NextTiers ==
    \/ ImportRejects
    \/ Construct
    \/ IntervalFires
    \/ Advance(MaxTimeProbe)
    \/ \E c \in 1..Len(cycles) : \E val \in CutoffSnapshots : SysResolves(c, val)
    \/ \E c \in 1..Len(cycles) : \E val \in CutoffReadings : TempResolves(c, val)
    \/ SpecsResolves

SpecTiers == InitTiers /\ [][NextTiers]_vars

\* The three loops together: the poll loop under every schedule of
\* provider responses, the clock, and frame callbacks that the display
\* delivers FrameGaps milliseconds apart (or not at all), over MaxTimeLoops.
FrameGaps == { 500, 1000 }

InitLoops == InitWith(MainHosts, BOOLEAN)

NextLoops ==
    \/ ImportRejects
    \/ Construct
    \/ IntervalFires
    \/ ClockFires
    \/ (~TimerDue /\ Advance(MaxTimeLoops))
    \/ \E gap \in FrameGaps : FrameCallback(Thirds(gap), MaxTimeLoops)
    \/ \E c \in 1..Len(cycles) : \E val \in SysSnapshots : SysResolves(c, val)
    \/ \E c \in 1..Len(cycles) : SysRejects(c)
    \/ \E c \in 1..Len(cycles) : \E val \in TempSnapshots : TempResolves(c, val)
    \/ \E c \in 1..Len(cycles) : TempRejects(c)
    \/ SpecsResolves
    \/ SpecsRejects

SpecLoops == InitLoops /\ [][NextLoops]_vars

\* The frame-rate counter under a steady display: 120 frame callbacks evenly
\* spaced over 2000 ms, the first one frame period after initialization,
\* while the clock and the poll loop run.
EvenGap == Thirds(2000) \div 120

InitFps == InitWith(MainHosts, {TRUE})

NextFps ==
    \/ ImportRejects
    \/ Construct
    \/ IntervalFires
    \/ ClockFires
    \/ FrameCallback(EvenGap, MaxTimeFps)
    \/ \E c \in 1..Len(cycles) : \E val \in SysSnapshots : SysResolves(c, val)
    \/ \E c \in 1..Len(cycles) : \E val \in TempSnapshots : TempResolves(c, val)
    \/ SpecsResolves

SpecFps == InitFps /\ [][NextFps]_vars

\* The long run, without rejections, on containers of several sizes, down
\* to a drawable area one pixel wide.
Surfaces ==
    { DefaultSurface, [width |-> 640, height |-> 131], [width |-> 31, height |-> 31] }

InitChart == InitOn({ h \in MainHosts : h.present }, {TRUE}, Surfaces)

NextChart ==
    \/ ImportRejects
    \/ Construct
    \/ IntervalFires
    \/ (AllAnswered /\ Advance(MaxTimeLong))
    \/ \E c \in 1..Len(cycles) : SysResolves(c, SnapshotAt(c))
    \/ \E c \in 1..Len(cycles) : TempResolves(c, ReadingAt(c))
    \/ SpecsResolves

SpecChart == InitChart /\ [][NextChart]_vars

\* The poll loop over the extremes of what the provider reports: usage of
\* 0 and 100 percent, and temperatures from 0.5 degrees up to a processor
\* at its thermal limit, above 100 degrees.
RangeSnapshots ==
    { [cpu_usage |-> 0, memory_usage |-> 1000, uptime |-> 0,
       used_memory |-> 0, total_memory |-> 0],
      [cpu_usage |-> 996, memory_usage |-> 4, uptime |-> 0,
       used_memory |-> 0, total_memory |-> 0] }

RangeReadings ==
    { [hasReading |-> FALSE, temperature |-> 0] } \cup
    { [hasReading |-> TRUE, temperature |-> t] : t \in { 5, 1000, 1045 } }

NextRange ==
    \/ ImportRejects
    \/ Construct
    \/ IntervalFires
    \/ Advance(MaxTimeProbe)
    \/ \E c \in 1..Len(cycles) : \E val \in RangeSnapshots : SysResolves(c, val)
    \/ \E c \in 1..Len(cycles) : \E val \in RangeReadings : TempResolves(c, val)
    \/ SpecsResolves

SpecRange == InitTiers /\ [][NextRange]_vars

\* formatBytes over byte counts around its unit threshold and around the
\* rounding points of both units: the provider reports them as used_memory
\* over the first two ticks.
ByteCounts ==
    { 0, 1, 524287, 524288, 52428800, 1073217535, 1073217536, 1073741823,
      1073741824, 1127428915, 1127428916, 1610612736, 2093796556,
      2093796557, 2147483647 }

ByteSnapshots ==
    { [cpu_usage |-> 500, memory_usage |-> 500, uptime |-> 0,
       used_memory |-> b, total_memory |-> 2147483647] : b \in ByteCounts }

NextFormat ==
    \/ ImportRejects
    \/ Construct
    \/ IntervalFires
    \/ Advance(MaxTimeProbe)
    \/ \E c \in 1..Len(cycles) : \E val \in ByteSnapshots : SysResolves(c, val)
    \/ \E c \in 1..Len(cycles) : TempResolves(c, NoTemp)
    \/ SpecsResolves

SpecFormat == InitTiers /\ [][NextFormat]_vars

----------------------------------------------------------------------------
(* Properties *)

Readouts == { "cpu", "memory", "temp", "uptime" }

Running == phase = "running"

\* the ticks of the points the chart buffers retain, oldest first
RetainedTicks ==
    LET n == Len(chartData.cpu)
    IN  [i \in 1..n |-> pushed[Len(pushed) - n + i].tick]

\* a step in which a readout receives a value, a point is pushed or a frame
\* is drawn after construction
PublishStep ==
    \/ chartData' # chartData
    \/ pushed' # pushed
    \/ (Running /\ drawCount' # drawCount)
    \/ \E f \in Readouts : ui'[f] # ui[f] /\ ui'[f] # Placeholder

\* C1: all-or-nothing join.  Whenever a step gives a readout a value, pushes
\* a point or draws a frame, it is the step in which the join of one cycle
\* completes with BOTH of that cycle's requests fulfilled, and what is shown
\* and pushed are that cycle's values; no response is shown while its pair
\* is pending or has failed.
C1_AllOrNothing ==
    [][ PublishStep =>
          \E c \in 1..Len(cycles) :
             /\ cycles[c].join = "pending"
             /\ cycles'[c].sys = "ok"
             /\ cycles'[c].temp = "ok"
             /\ ui'.cpu \in { ToString(Round(cycles'[c].sysVal.cpu_usage)), Placeholder }
             /\ ui'.memory \in { ToString(Round(cycles'[c].sysVal.memory_usage)), Placeholder }
             /\ pushed' # pushed =>
                   /\ pushed'[Len(pushed')].tick = c
                   /\ pushed'[Len(pushed')].cpu = Round(cycles'[c].sysVal.cpu_usage)
                   /\ pushed'[Len(pushed')].memory = Round(cycles'[c].sysVal.memory_usage)
      ]_vars

\* one response of a cycle has arrived, its pair is pending, and nothing of
\* that cycle is in the buffers although an earlier cycle was published
C1_Witness ==
    \E c \in 1..Len(cycles) :
       /\ cycles[c].sys = "ok"
       /\ cycles[c].temp = "pending"
       /\ Len(pushed) >= 1
       /\ \A i \in 1..Len(pushed) : pushed[i].tick # c

\* C2: the poll loop is non-overlapping: no tick issues its requests while
\* both requests of an earlier tick are still pending.
C2_NonOverlapping ==
    [][ Len(cycles') > Len(cycles) =>
          \A c \in 1..Len(cycles) :
             ~(cycles[c].sys = "pending" /\ cycles[c].temp = "pending") ]_vars

\* C3: in the step in which the join of a cycle is rejected, the CPU, memory
\* and temperature readouts all become the placeholder.
C3_FailureShowsPlaceholders ==
    [][ (\E c \in 1..Len(cycles) :
            cycles[c].join = "pending" /\ cycles'[c].join = "rejected")
        => /\ ui'.cpu = Placeholder
           /\ ui'.memory = Placeholder
           /\ ui'.temp = Placeholder ]_vars

\* a cycle failed after an earlier cycle had been published with a
\* temperature reading, and the readouts show the placeholder
C3_Witness ==
    /\ Len(cycles) = 2
    /\ cycles[1].join = "fulfilled"
    /\ cycles[1].tempVal.hasReading
    /\ cycles[2].join = "rejected"
    /\ Len(pushed) = 1
    /\ ui.cpu = Placeholder /\ ui.memory = Placeholder /\ ui.temp = Placeholder

FailStep ==
    \E c \in 1..Len(cycles) :
       cycles[c].join = "pending" /\ cycles'[c].join = "rejected"

\* C4: a failed cycle neither halts nor accelerates polling.  The step in
\* which a cycle fails issues no request and leaves the interval timer
\* armed with its regular due time (a failure of the first cycle arms it
\* PollInterval after the failure); requests are issued only by the
\* constructor's first call and by a due interval tick, and each such tick
\* of an online session issues a fresh pair of requests.
C4_FailureKeepsCadence ==
    [][ /\ FailStep =>
            /\ Len(cycles') = Len(cycles)
            /\ intervalSet'
            /\ nextFire' = IF intervalSet THEN nextFire ELSE now + PollInterval
        /\ Len(cycles') # Len(cycles) =>
            /\ ~Running \/ (intervalSet /\ now >= nextFire)
            /\ cycles' = Append(cycles, NewCycle)
        /\ (ticks' # ticks /\ tauriInvoke' # NullChannel) =>
            /\ ticks' = ticks + 1
            /\ cycles' = Append(cycles, NewCycle)
      ]_vars

\* two consecutive failed cycles, then a cycle that succeeds and is pushed
C4_Witness ==
    /\ Len(cycles) = 3
    /\ cycles[1].join = "rejected"
    /\ cycles[2].join = "rejected"
    /\ cycles[3].join = "fulfilled"
    /\ Len(pushed) = 1 /\ pushed[1].tick = 3
    /\ ui.cpu # Placeholder

\* C5: one cycle begins at start and a further one with every 2000 ms that
\* have passed since, whatever the provider does: once more than k * 2000 ms
\* have passed, at least k + 1 cycles have begun.
C5_FixedCadence ==
    Running => ticks >= 1 + ((now - 1) \div 2000)

\* C6: each chart buffer has at most 50 points and holds exactly the most
\* recently pushed points (all of them up to 50, the last 50 beyond),
\* oldest first, in push order.
C6_LastFifty ==
    LET n   == Min(Len(pushed), 50)
        off == Len(pushed) - n
    IN  /\ Len(chartData.cpu) = n
        /\ Len(chartData.memory) = n
        /\ Len(chartData.temperature) = n
        /\ \A i \in 1..n :
              /\ chartData.cpu[i] = pushed[off + i].cpu
              /\ chartData.memory[i] = pushed[off + i].memory
              /\ chartData.temperature[i] = pushed[off + i].temperature

\* more than 50 points were pushed and the oldest two were evicted
C6_Witness ==
    /\ Len(pushed) >= 52
    /\ Len(chartData.cpu) = 50
    /\ chartData.cpu[1] = pushed[Len(pushed) - 49].cpu

\* C7: insertion order is time order: the points a buffer retains are in
\* the order in which their poll ticks were started.
C7_TimeOrder ==
    \A i, j \in 1..Len(chartData.cpu) :
       i < j => RetainedTicks[i] < RetainedTicks[j]

\* C8: in offline mode every poll cycle leaves the CPU, memory, temperature
\* and uptime readouts at the placeholder, no provider request was ever
\* issued, nothing was pushed, no error was caught and no frame was drawn
\* beyond the one of initializeChart.
C8_OfflineCycle ==
    (Running /\ tauriInvoke = NullChannel) =>
        /\ \A f \in Readouts : ui[f] = Placeholder
        /\ cycles = << >>
        /\ specsRequest = "none"
        /\ chartData = EmptyChart
        /\ pushed = << >>
        /\ consoleErrors = 0
        /\ drawCount = IF ctx THEN 1 ELSE 0

\* an offline session after its third poll cycle
C8_Witness ==
    /\ Running
    /\ tauriInvoke = NullChannel
    /\ ticks >= 3
    /\ ui.uptime = Placeholder

\* availability and name of the four bindings, in the probe's priority order
Available(imported, h) ==
    << imported \notin Falsy, h.present /\ h.invoke,
       h.present /\ h.tauri, h.present /\ h.core >>

BindingNames(imported) ==
    << imported, "host.invoke", "host.tauri.invoke", "host.core.invoke" >>

\* C9: the probe returns the first available binding in the order imported
\* binding, host.invoke, host.tauri.invoke, host.core.invoke, and the null
\* channel if and only if none of the four is available.
C9_FirstCallable ==
    [][ (~Running /\ Running') =>
          LET av    == Available(importedInvoke, host)
              found == { i \in 1..4 : av[i] }
          IN  /\ (tauriInvoke' = NullChannel) <=> (found = {})
              /\ found # {} =>
                    \E i \in found :
                       /\ \A k \in found : i <= k
                       /\ tauriInvoke' = BindingNames(importedInvoke)[i]
      ]_vars

\* the probe chose tauri.invoke although core.invoke was available too and
\* the import had resolved without an invoke export
C9_Witness ==
    /\ Running
    /\ tauriInvoke = "host.tauri.invoke"
    /\ host.core
    /\ importedInvoke = "undefined"

\* C10: the channel is probed once, at construction, and never changes
\* afterwards; a session whose probe found no binding issues no request in
\* any later cycle, also when the import completes after the probe.
C10_ProbedOnce ==
    [][ Running =>
          /\ Running'
          /\ tauriInvoke' = tauriInvoke
          /\ tauriInvoke = NullChannel =>
                (cycles' = << >> /\ specsRequest' = "none") ]_vars

\* an offline session in which the import resolved after the probe and
\* poll cycles have run since
C10_Witness ==
    /\ Running
    /\ tauriInvoke = NullChannel
    /\ importedInvoke = "imported"
    /\ ticks >= 3

----------------------------------------------------------------------------
(* The temperature reading and the chart frame *)

\* the join of cycle c is fulfilled in this step
Fulfils(c) == cycles[c].join = "pending" /\ cycles'[c].join = "fulfilled"

\* C11: absent temperature reading.  When the join of a cycle is fulfilled
\* and its temperature reading is absent, the temperature readout shows the
\* placeholder and carries no severity class; with a chart, the cycle is not
\* a failed one: nothing is logged, the CPU and memory readouts show the
\* rounded values with a severity class, the point pushed has the rounded
\* CPU and memory values and the temperature 0, and the frame is redrawn.
C11_AbsentReading ==
    [][ \A c \in 1..Len(cycles) :
          (Fulfils(c) /\ ~cycles'[c].tempVal.hasReading) =>
             LET v == cycles'[c].sysVal
             IN  /\ ui'.temp = Placeholder
                 /\ ui'.tempTier \cap TierClasses = {}
                 /\ ctx =>
                      /\ consoleErrors' = consoleErrors
                      /\ ui'.cpu = ToString(Round(v.cpu_usage))
                      /\ ui'.memory = ToString(Round(v.memory_usage))
                      /\ Cardinality(ui'.cpuTier \cap TierClasses) = 1
                      /\ Cardinality(ui'.memoryTier \cap TierClasses) = 1
                      /\ pushed' = Append(pushed,
                             [tick |-> c, cpu |-> Round(v.cpu_usage),
                              memory |-> Round(v.memory_usage), temperature |-> 0])
                      /\ Latest(chartData'.temperature) = 0
                      /\ Latest(chartData'.cpu) = Round(v.cpu_usage)
                      /\ Latest(chartData'.memory) = Round(v.memory_usage)
                      /\ drawCount' = drawCount + 1 ]_vars

\* a present reading was shown with its severity class, and the next
\* successful cycle, whose reading is absent, has cleared both
C11_Witness ==
    /\ ctx
    /\ Len(pushed) >= 2
    /\ pushed[Len(pushed) - 1].temperature > 0
    /\ pushed[Len(pushed)].temperature = 0
    /\ ui.temp = Placeholder
    /\ ui.tempTier = {}
    /\ ui.cpu = ToString(pushed[Len(pushed)].cpu)

\* some retained temperature sample is strictly positive
HasPositive == \E i \in 1..Len(chartData.temperature) : chartData.temperature[i] > 0

\* C12: temperature polyline gate.  In the frame on the chart the
\* temperature polyline is drawn only if some retained temperature sample
\* is strictly positive; after a tick with an absent reading it is still
\* drawn while an earlier positive sample is retained, and it is omitted
\* once every retained sample is 0.
C12_TemperatureLine ==
    ctx =>
       /\ frame.tempLine => HasPositive
       /\ (HasPositive /\ Latest(chartData.temperature) = 0) => frame.tempLine
       /\ ~HasPositive => ~frame.tempLine

\* positive samples were pushed and shown, and the last of them has been
\* evicted from the full buffer: the polyline is gone
C12_Witness ==
    /\ ctx
    /\ Len(pushed) > maxDataPoints
    /\ \E i \in 1..Len(pushed) : pushed[i].temperature > 0
    /\ Len(chartData.temperature) = maxDataPoints
    /\ ~HasPositive
    /\ ~frame.tempLine
    /\ frame.cpuLine

\* C13: overlay temperature line.  In every frame with a non-empty buffer
\* the current-value overlay contains the temperature line if and only if
\* some retained temperature sample is strictly positive (the gate of the
\* polyline), and its panel is sized for 3 lines exactly then and for 2
\* lines otherwise.
C13_OverlayGate ==
    (ctx /\ frame.points > 0) =>
       /\ ("TEMP" \in frame.overlayLines) <=> HasPositive
       /\ Cardinality(frame.overlayLines) = IF HasPositive THEN 3 ELSE 2
       /\ frame.panelHeight = IF HasPositive THEN 38 ELSE 26

----------------------------------------------------------------------------
(* Severity classes *)

\* the classList carries exactly one severity class, the one the standard
\* direction gives `value` under the cutoffs warnAt / dangerAt
StandardTier(classList, value, warnAt, dangerAt) ==
    /\ Cardinality(classList \cap TierClasses) = 1
    /\ ("danger" \in classList) <=> value >= dangerAt
    /\ ("warning" \in classList) <=> (warnAt <= value /\ value < dangerAt)
    /\ ("good" \in classList) <=> value < warnAt

\* C14: standard classification.  After the step in which the join of a
\* cycle is fulfilled, the CPU, memory and (if the reading is present)
\* temperature readouts each carry exactly one severity class: danger iff
\* the rounded value >= dangerAt, warning iff warnAt <= value < dangerAt,
\* good iff value < warnAt, with cutoffs 70/85, 75/90 and 70/80.
C14_StandardClassification ==
    [][ \A c \in 1..Len(cycles) :
          Fulfils(c) =>
             LET v == cycles'[c].sysVal
                 t == cycles'[c].tempVal
             IN  /\ StandardTier(ui'.cpuTier, Round(v.cpu_usage), 70, 85)
                 /\ StandardTier(ui'.memoryTier, Round(v.memory_usage), 75, 90)
                 /\ t.hasReading =>
                       StandardTier(ui'.tempTier, Round(t.temperature), 70, 80) ]_vars

\* readouts exactly at a cutoff and just below one: CPU 85 is danger,
\* memory 74 is good, temperature 70 is warning
C14_Witness ==
    /\ ui.cpu = "85" /\ ui.cpuTier = { "danger" }
    /\ ui.memory = "74" /\ ui.memoryTier = { "good" }
    /\ ui.temp = "70" /\ ui.tempTier = { "warning" }
    /\ Len(pushed) = 2

\* this step is a frame callback: updateFPS ran after construction
FrameStep == Running /\ fpsCounter' # fpsCounter

\* this step is a frame callback that published a measurement
FpsUpdateStep == FrameStep /\ fpsCounter'.lastTime # fpsCounter.lastTime

\* C15: inverted classification of the frame rate.  At every fps update the
\* fps readout carries danger iff fps < 30, warning iff 30 <= fps < 55, and
\* good iff fps >= 55.
C15_InvertedClassification ==
    [][ FpsUpdateStep =>
          LET v == fpsCounter'.fps
          IN  /\ ("danger" \in ui'.fpsTier) <=> v < 30
              /\ ("warning" \in ui'.fpsTier) <=> (30 <= v /\ v < 55)
              /\ ("good" \in ui'.fpsTier) <=> v >= 55 ]_vars

----------------------------------------------------------------------------
(* The frame-rate loop *)

\* C16: frame-rate measurement rule.  Every frame callback counts one frame
\* and requests the next callback.  It publishes a measurement if and only
\* if at least 1000 ms have passed since the last one; then fps is
\* frames * 1000 / elapsed rounded to the nearest integer, the readout
\* shows it, the frame count is 0 and the measurement time is the current
\* time.  In every other callback the readout, the fps value and the
\* measurement time are unchanged, and no other step changes the readout.
C16_MeasurementRule ==
    [][ /\ FrameStep =>
            LET t       == 3 * now' + sub'
                elapsed == t - fpsCounter.lastTime
                counted == fpsCounter.frames + 1
                v       == fpsCounter'.fps
            IN  /\ rafRequested'
                /\ IF elapsed >= Thirds(1000)
                   THEN /\ 2 * elapsed * v <= 2 * counted * Thirds(1000) + elapsed
                        /\ 2 * counted * Thirds(1000) + elapsed < 2 * elapsed * (v + 1)
                        /\ fpsCounter'.frames = 0
                        /\ fpsCounter'.lastTime = t
                        /\ ui'.fps = ToString(v)
                        /\ fpsUpdates' = Append(fpsUpdates, v)
                   ELSE /\ fpsCounter'.frames = counted
                        /\ fpsCounter'.fps = fpsCounter.fps
                        /\ fpsCounter'.lastTime = fpsCounter.lastTime
                        /\ ui'.fps = ui.fps
                        /\ ui'.fpsTier = ui.fpsTier
                        /\ fpsUpdates' = fpsUpdates
        /\ (ui'.fps # ui.fps \/ fpsUpdates' # fpsUpdates) => FrameStep ]_vars

\* a measurement was published exactly 1000 ms after the last one, and a
\* later callback has been counted without publishing
C16_Witness ==
    /\ Len(fpsUpdates) = 1
    /\ fpsCounter.lastTime = Thirds(1000)
    /\ fpsCounter.fps = fpsUpdates[1]
    /\ ui.fps = ToString(fpsCounter.fps)
    /\ fpsCounter.frames = 1
    /\ PerfNow = Thirds(1500)

\* C17: frame-rate accuracy.  With 120 frame callbacks evenly spaced over
\* exactly 2000 ms from initialization, the counter publishes exactly two
\* measurements, each in 59..61.
C17_SteadySixty ==
    /\ Len(fpsUpdates) <= 2
    /\ \A i \in 1..Len(fpsUpdates) : fpsUpdates[i] \in 59..61
    /\ (Running /\ PerfNow = Thirds(2000)) => Len(fpsUpdates) = 2

\* the 120th callback has run, at 2000 ms
C17_Witness ==
    /\ PerfNow = Thirds(2000)
    /\ Len(fpsUpdates) = 2
    /\ fpsCounter.lastTime = Thirds(2000)
    /\ fpsCounter.frames = 0
    /\ ui.fps = ToString(fpsUpdates[2])

\* this step is a step of the poll loop: a call of updateSystemInfo or the
\* arrival of a response
PollStep == Running /\ (ticks' # ticks \/ cycles' # cycles)

\* C18: independence of the frame-rate loop and the poll loop.  No step of
\* a poll cycle changes the frame counter, the measurement time, the fps
\* value, the fps readout or the outstanding frame request; no frame
\* callback changes a chart buffer, a poll readout, the frame on the chart,
\* the poll cycles or the poll timer.
C18_Independence ==
    [][ /\ PollStep =>
            /\ UNCHANGED << fpsCounter, rafRequested, fpsUpdates >>
            /\ ui'.fps = ui.fps /\ ui'.fpsTier = ui.fpsTier
        /\ FrameStep =>
            /\ UNCHANGED << chartData, pushed, frame, drawCount, cycles, ticks,
                            intervalSet, nextFire, consoleErrors, tauriInvoke >>
            /\ \A f \in Readouts : ui'[f] = ui[f]
            /\ ui'.cpuTier = ui.cpuTier /\ ui'.memoryTier = ui.memoryTier
            /\ ui'.tempTier = ui.tempTier ]_vars

\* a frame callback published a measurement between two successful cycles
\* of the poll loop
C18_Witness ==
    /\ Len(pushed) = 2
    /\ Len(fpsUpdates) >= 1
    /\ fpsCounter.frames >= 1
    /\ ui.cpu = ToString(pushed[2].cpu)
    /\ ui.fps = ToString(fpsCounter.fps)

----------------------------------------------------------------------------
(* Redraws and errors *)

\* this step is the construction of the DashboardManager
ConstructStep == ~Running /\ phase' = "running"

\* C19: redraw discipline.  With a chart surface, the construction draws
\* exactly one frame, of the empty buffers, and the step that completes a
\* successful poll cycle draws exactly one frame, of the buffers with that
\* cycle's point pushed.  No other step draws: not a failed cycle, an
\* offline cycle, a clock tick or a frame callback.
C19_RedrawDiscipline ==
    [][ /\ (ConstructStep /\ canvas) =>
            /\ drawCount' = 1
            /\ frame' # NoFrame /\ frame'.points = 0
            /\ chartData' = EmptyChart
        /\ \A c \in 1..Len(cycles) :
              (Fulfils(c) /\ ctx) =>
                 /\ drawCount' = drawCount + 1
                 /\ Len(pushed') = Len(pushed) + 1
                 /\ Latest(chartData'.cpu) = pushed'[Len(pushed')].cpu
                 /\ Latest(chartData'.memory) = pushed'[Len(pushed')].memory
                 /\ Latest(chartData'.temperature) = pushed'[Len(pushed')].temperature
                 /\ frame'.points = Len(chartData'.cpu)
        /\ (drawCount' # drawCount \/ frame' # frame) =>
              \/ ConstructStep /\ canvas
              \/ \E c \in 1..Len(cycles) : Fulfils(c) /\ ctx ]_vars

\* one frame at construction and one for the successful cycle; the failed
\* cycle, the clock ticks and the frame callbacks have drawn nothing
C19_Witness ==
    /\ drawCount = 2
    /\ Len(cycles) = 2
    /\ \E c \in 1..2 : cycles[c].join = "rejected"
    /\ \E c \in 1..2 : cycles[c].join = "fulfilled"
    /\ frame.points = 1
    /\ Len(fpsUpdates) >= 1
    /\ ui.time = "2"

\* this step handles the rejection of a provider request: the join of a
\* cycle is rejected, or get_hardware_specs is
RejectionStep ==
    \/ \E c \in 1..Len(cycles) : cycles[c].join = "pending" /\ cycles'[c].join = "rejected"
    \/ specsRequest = "pending" /\ specsRequest' = "rejected"

----------------------------------------------------------------------------
(* Provider requests *)

\* C21: request discipline.  Online, get_hardware_specs is requested by the
\* construction and by no other step, so once per session; a poll tick
\* issues exactly one get_system_info and one get_cpu_temperature (one new
\* cycle with both requests pending) and nothing else issues them; the
\* first cycle is issued by the construction itself, so a rejection of
\* get_hardware_specs finds the poll loop started and leaves it alone.
C21_RequestDiscipline ==
    [][ /\ (specsRequest' = "pending" /\ specsRequest # "pending") => ConstructStep
        /\ (Running /\ specsRequest \in { "ok", "rejected", "none" }) =>
               specsRequest' = specsRequest
        /\ (ConstructStep /\ tauriInvoke' # NullChannel) =>
               /\ specsRequest' = "pending"
               /\ cycles' = << NewCycle >>
        /\ (Running /\ Online /\ ticks' # ticks) =>
               /\ ticks' = ticks + 1
               /\ cycles' = Append(cycles, NewCycle)
        /\ Len(cycles') # Len(cycles) =>
               /\ ticks' = ticks + 1
               /\ Len(cycles') = Len(cycles) + 1
        /\ \A c \in 1..Len(cycles) :
               /\ cycles[c].sys # "pending" => cycles'[c].sys = cycles[c].sys
               /\ cycles[c].temp # "pending" => cycles'[c].temp = cycles[c].temp
        /\ (specsRequest = "pending" /\ specsRequest' = "rejected") =>
               /\ Len(cycles) >= 1
               /\ UNCHANGED << cycles, ticks, intervalSet, nextFire >> ]_vars

\* the hardware-specs request was rejected, and the poll loop has run three
\* ticks whose cycles all succeeded
C21_Witness ==
    /\ specsRequest = "rejected"
    /\ ticks = 3
    /\ Len(cycles) = 3
    /\ \A c \in 1..3 : cycles[c].join = "fulfilled"
    /\ Len(pushed) = 3 \/ ~ctx

----------------------------------------------------------------------------
(* Byte counts *)

\* the rendering of each byte count of ByteCounts in binary units: GiB with
\* one decimal from 2^30 bytes on, whole MiB below
BinaryUnits ==
    [ b \in ByteCounts |->
        CASE b = 0          -> "0 MB"
          [] b = 1          -> "0 MB"
          [] b = 524287     -> "0 MB"
          [] b = 524288     -> "1 MB"
          [] b = 52428800   -> "50 MB"
          [] b = 1073217535 -> "1023 MB"
          [] b = 1073217536 -> "1024 MB"
          [] b = 1073741823 -> "1024 MB"
          [] b = 1073741824 -> "1.0 GB"
          [] b = 1127428915 -> "1.0 GB"
          [] b = 1127428916 -> "1.1 GB"
          [] b = 1610612736 -> "1.5 GB"
          [] b = 2093796556 -> "1.9 GB"
          [] b = 2093796557 -> "2.0 GB"
          [] b = 2147483647 -> "2.0 GB" ]

\* C22: formatBytes renders binary units.  A byte count of at least 2^30
\* is shown in GiB with one decimal and " GB", a smaller one in MiB rounded
\* to a whole number and " MB": the used-memory readout of a successful
\* cycle shows the binary-unit rendering of the count the provider
\* reported; 1610612736 gives "1.5 GB" and 52428800 gives "50 MB".
C22_FormatBytes ==
    [][ \A c \in 1..Len(cycles) :
          (Fulfils(c) /\ ctx) =>
             /\ ui'.usedMemory = BinaryUnits[cycles'[c].sysVal.used_memory]
             /\ ui'.totalMemory = "2.0 GB"
             /\ cycles'[c].sysVal.used_memory = 1610612736 => ui'.usedMemory = "1.5 GB"
             /\ cycles'[c].sysVal.used_memory = 52428800 => ui'.usedMemory = "50 MB" ]_vars

\* the first cycle reported 1610612736 bytes and the second 52428800
C22_Witness ==
    /\ Len(cycles) = 2
    /\ cycles[1].sysVal.used_memory = 1610612736
    /\ cycles[2].sysVal.used_memory = 52428800
    /\ cycles[2].join = "fulfilled"
    /\ ui.usedMemory = "50 MB"
    /\ ui.totalMemory = "2.0 GB"

----------------------------------------------------------------------------
(* Chart geometry *)

\* the polyline `path` maps the series `data` (in tenths) as C23 says; x is
\* in 1/(maxDataPoints - 1) of a pixel and y in 1/1000 of a pixel
Mapped(path, data) ==
    Len(path) # 0 =>
       /\ Len(path) = Len(data)
       /\ \A i, j \in 1..Len(path) :
             /\ i < j => path[i].x < path[j].x
             /\ data[i] > data[j] => path[i].y < path[j].y
       /\ \A i \in 1..Len(path) :
             /\ (maxDataPoints - 1) * (path[i].x - (maxDataPoints - 1) * Padding)
                   = (i - 1) * ((maxDataPoints - 1) * chartWidth)
             /\ i = 1 => path[i].x = (maxDataPoints - 1) * Padding
             /\ i = maxDataPoints => path[i].x = (maxDataPoints - 1) * (Padding + chartWidth)
             /\ data[i] = 0 => path[i].y = 1000 * (Padding + chartHeight)
             /\ data[i] = 1000 => path[i].y = 1000 * Padding

\* C23: chart coordinate mapping.  In every polyline of the frame, of two
\* points the one with the higher value has the strictly smaller y, with
\* value 0 on the bottom edge of the drawable area and 100 on the top edge,
\* and the one with the higher index has the strictly larger x, with
\* x = padding + index / (capacity - 1) * drawableWidth: index 0 on the
\* left edge and index 49 on the right edge.
C23_CoordinateMapping ==
    ctx =>
       /\ Mapped(frame.cpuPath, InTenths(chartData.cpu))
       /\ Mapped(frame.memoryPath, InTenths(chartData.memory))
       /\ Mapped(frame.tempPath, chartData.temperature)

\* full buffers on the narrowest container: index 49 is on the right edge,
\* a CPU value of 100 on the top edge, a temperature of 0 on the bottom edge
C23_Witness ==
    /\ surface.width = 31
    /\ Len(frame.cpuPath) = maxDataPoints
    /\ Len(frame.tempPath) = maxDataPoints
    /\ frame.cpuPath[maxDataPoints].x = (maxDataPoints - 1) * (Padding + chartWidth)
    /\ \E i \in 1..maxDataPoints :
          chartData.cpu[i] = 100 /\ frame.cpuPath[i].y = 1000 * Padding
    /\ \E i \in 1..maxDataPoints :
          /\ chartData.temperature[i] = 0
          /\ frame.tempPath[i].y = 1000 * (Padding + chartHeight)

----------------------------------------------------------------------------
(* The series buffers *)

\* C24: series points are in [0,100].  Whatever snapshot and temperature
\* reading the provider returns, every value held in the cpu and memory
\* buffers lies between 0 and 100, and so does every value of the
\* temperature buffer after the rescaling of drawChart (the identity: the
\* buffer holds tenths of a degree, so between 0 and 1000 here).
C24_SeriesPointRange ==
    /\ \A i \in 1..Len(chartData.cpu) : chartData.cpu[i] \in 0..100
    /\ \A i \in 1..Len(chartData.memory) : chartData.memory[i] \in 0..100
    /\ \A i \in 1..Len(chartData.temperature) : chartData.temperature[i] \in 0..1000
    /\ \A i \in 1..Len(frame.tempPath) :
          /\ frame.tempPath[i].y >= 1000 * Padding
          /\ frame.tempPath[i].y <= 1000 * (Padding + chartHeight)

\* the join of cycle c is rejected in this step
Fails(c) == cycles[c].join = "pending" /\ cycles'[c].join = "rejected"

\* C25: a failed cycle leaves the chart alone.  The step in which the join
\* of a cycle is rejected changes none of the three series buffers and
\* draws no frame, and every point ever pushed is the point of a cycle
\* whose join was fulfilled: a failed tick contributes no point.
C25_FailedCycleNoPoint ==
    [][ /\ \A c \in 1..Len(cycles) :
              Fails(c) => UNCHANGED << chartData, pushed, frame, drawCount >>
        /\ \A i \in 1..Len(pushed') :
              cycles'[pushed'[i].tick].join = "fulfilled"
        /\ Len(chartData'.cpu) <= Len(pushed') ]_vars

\* the cycle of the second tick failed between two successful ones: the
\* buffers hold the points of ticks 1 and 3 and three frames were drawn
C25_Witness ==
    /\ Len(cycles) = 3
    /\ cycles[2].join = "rejected"
    /\ Len(pushed) = 2
    /\ pushed[1].tick = 1 /\ pushed[2].tick = 3
    /\ Len(chartData.cpu) = 2
    /\ Len(chartData.memory) = 2
    /\ Len(chartData.temperature) = 2
    /\ drawCount = 3
    /\ frame.points = 2

----------------------------------------------------------------------------
(* Response schedules *)

\* a request of cycle c is rejected in this step
RequestRejected(c) ==
    \/ cycles[c].sys = "pending" /\ cycles'[c].sys = "rejected"
    \/ cycles[c].temp = "pending" /\ cycles'[c].temp = "rejected"

\* C26: a rejection fails the cycle at once.  The step in which a request
\* of a cycle is rejected while the cycle is undecided fails the cycle in
\* that same step, whether or not the other request is still pending: the
\* readouts show the placeholder and the error is logged.  A response that
\* arrives for a cycle that has failed changes no readout and no buffer
\* and draws no frame.
C26_FailsAtOnce ==
    [][ \A c \in 1..Len(cycles) :
          /\ (RequestRejected(c) /\ cycles[c].join = "pending") =>
                /\ cycles'[c].join = "rejected"
                /\ \A f \in Readouts : ui'[f] = Placeholder
                /\ consoleErrors' = consoleErrors + 1
          /\ (cycles[c].join = "rejected" /\ cycles'[c] # cycles[c]) =>
                /\ cycles'[c].join = "rejected"
                /\ UNCHANGED << ui, chartData, pushed, frame, drawCount,
                                consoleErrors, intervalSet, nextFire >> ]_vars

\* the temperature request of the first cycle was rejected while the
\* system request was pending, and the system response arrived afterwards
C26_Witness ==
    /\ Len(cycles) >= 1
    /\ cycles[1].temp = "rejected"
    /\ cycles[1].sys = "ok"
    /\ cycles[1].sysVal = NoSnapshot
    /\ cycles[1].join = "rejected"
    /\ ui.cpu = Placeholder
    /\ pushed = << >>

\* C27: no overwrite by an older tick.  The outcome of a poll tick is
\* displayed in the step that decides its cycle; when that step is taken,
\* no cycle of a later tick has been decided yet, so what the readouts show
\* is never replaced by the outcome of a tick started earlier.
C27_NoStaleOverwrite ==
    [][ \A c \in 1..Len(cycles) :
          (cycles[c].join = "pending" /\ cycles'[c].join # "pending") =>
             \A d \in (c + 1)..Len(cycles) : cycles[d].join = "pending" ]_vars

----------------------------------------------------------------------------
(* Placeholders and severity classes *)

\* C28: a placeholder carries no severity class.  Whenever the CPU, memory
\* or temperature readout shows the placeholder, after an absent reading
\* or a failed cycle, its classList holds none of good, warning, danger.
C28_PlaceholderHasNoTier ==
    /\ ui.cpu = Placeholder => ui.cpuTier \cap TierClasses = {}
    /\ ui.memory = Placeholder => ui.memoryTier \cap TierClasses = {}
    /\ ui.temp = Placeholder => ui.tempTier \cap TierClasses = {}

\* C29: a successful cycle shows its values with or without a chart.  The
\* step in which the join of a cycle is fulfilled leaves the CPU and memory
\* readouts showing the rounded values of that cycle, not the placeholder,
\* whether or not the canvas exists.
C29_ValuesWithoutChart ==
    [][ \A c \in 1..Len(cycles) :
          Fulfils(c) =>
             /\ ui'.cpu = ToString(Round(cycles'[c].sysVal.cpu_usage))
             /\ ui'.memory = ToString(Round(cycles'[c].sysVal.memory_usage))
             /\ ui'.cpu # Placeholder /\ ui'.memory # Placeholder ]_vars

\* the last n points pushed
LastPushed(n) == [i \in 1..n |-> pushed[Len(pushed) - n + i]]

\* C30: the three series buffers move in lockstep.  They always have the
\* same length, and index i of each holds the value of one and the same
\* pushed point, so of the same tick; a successful cycle appends exactly
\* one point to each, and when the buffers are full the oldest point
\* leaves all three together.
C30_Lockstep ==
    [][ /\ Len(chartData'.cpu) = Len(chartData'.memory)
        /\ Len(chartData'.cpu) = Len(chartData'.temperature)
        /\ \A i \in 1..Len(chartData'.cpu) :
              LET p == pushed'[Len(pushed') - Len(chartData'.cpu) + i]
              IN  /\ chartData'.cpu[i] = p.cpu
                  /\ chartData'.memory[i] = p.memory
                  /\ chartData'.temperature[i] = p.temperature
        /\ \A c \in 1..Len(cycles) :
              (Fulfils(c) /\ ctx) =>
                 LET kept(data) == IF Len(data) = maxDataPoints THEN Tail(data) ELSE data
                     p == pushed'[Len(pushed')]
                 IN  /\ p.tick = c
                     /\ chartData'.cpu = Append(kept(chartData.cpu), p.cpu)
                     /\ chartData'.memory = Append(kept(chartData.memory), p.memory)
                     /\ chartData'.temperature =
                            Append(kept(chartData.temperature), p.temperature) ]_vars

\* the buffers are full and three points have been evicted: each buffer
\* holds the values of ticks 4 to 53
C30_Witness ==
    /\ Len(pushed) = maxDataPoints + 3
    /\ Len(chartData.cpu) = maxDataPoints
    /\ Len(chartData.memory) = maxDataPoints
    /\ Len(chartData.temperature) = maxDataPoints
    /\ chartData.cpu[1] = pushed[4].cpu
    /\ chartData.memory[1] = pushed[4].memory
    /\ chartData.temperature[1] = pushed[4].temperature
    /\ pushed[4].cpu # pushed[3].cpu /\ pushed[4].memory # pushed[3].memory

----------------------------------------------------------------------------
(* The initial frame and the two-point rule *)

\* this step draws a frame after the construction has drawn the first one
LaterFrameStep == Running /\ drawCount' # drawCount

\* the frame of the next state paints no polyline and no overlay
NoSeriesPainted ==
    /\ ~frame'.cpuLine /\ ~frame'.memoryLine /\ ~frame'.tempLine
    /\ frame'.cpuPath = << >>
    /\ frame'.memoryPath = << >>
    /\ frame'.tempPath = << >>
    /\ frame'.overlayLines = {}
    /\ frame'.panelHeight = 0

\* in the frame of the next state, a painted polyline belongs to a series
\* of the buffers just drawn that holds at least two points
PolylinesNeedTwoPoints ==
    /\ (frame'.cpuLine \/ frame'.cpuPath # << >>) => Len(chartData'.cpu) >= 2
    /\ (frame'.memoryLine \/ frame'.memoryPath # << >>) => Len(chartData'.memory) >= 2
    /\ (frame'.tempLine \/ frame'.tempPath # << >>) => Len(chartData'.temperature) >= 2

\* C31, as stated: the frame drawn at initialization, with empty buffers,
\* contains only the background and the grid, so no polyline, no legend
\* and no current-value overlay; and in every later frame a polyline is
\* drawn only for a series holding at least 2 points.
C31_InitialFrameBare ==
    [][ /\ (ConstructStep /\ canvas) =>
            /\ chartData' = EmptyChart
            /\ frame'.background /\ frame'.grid
            /\ NoSeriesPainted
            /\ ~frame'.legend
        /\ LaterFrameStep => PolylinesNeedTwoPoints ]_vars

\* C31, amended: the frame drawn at initialization, with empty buffers,
\* contains the background, the grid and the legend, and no polyline and
\* no current-value overlay; and in every later frame a polyline is drawn
\* only for a series holding at least 2 points.
C31_InitialFrame ==
    [][ /\ (ConstructStep /\ canvas) =>
            /\ chartData' = EmptyChart
            /\ frame'.background /\ frame'.grid
            /\ NoSeriesPainted
            /\ frame'.legend
        /\ LaterFrameStep => PolylinesNeedTwoPoints ]_vars

\* the initial frame and one later frame have been drawn; the later one is
\* of buffers holding a single point, with a positive temperature, and it
\* shows the overlay but no polyline
C31_Witness ==
    /\ drawCount = 2
    /\ Len(chartData.cpu) = 1
    /\ chartData.temperature[1] > 0
    /\ frame.points = 1
    /\ frame.legend
    /\ frame.overlayLines = { "CPU", "MEM", "TEMP" }
    /\ ~frame.cpuLine /\ ~frame.memoryLine /\ ~frame.tempLine
    /\ frame.cpuPath = << >> /\ frame.memoryPath = << >> /\ frame.tempPath = << >>

====
